---- MODULE Spec2Model ----
(***************************************************************************)
(* A model of the APNs push client: the HTTP/2 connection wrapper          *)
(* (Http2Wrapper: request, _responseHeaders, _responseJson,                *)
(* _convertBufferToJson) and the push client built on it (ApnsClient:      *)
(* send, sendMany, _push, _getPath, _buildHeaders, _getSigningToken,       *)
(* _handleEvents, _resetSigningToken).                                     *)
(*                                                                         *)
(* One step of the model is one run-to-completion piece of JavaScript: a   *)
(* public call up to its first suspension, one event emitted on a stream   *)
(* (with every listener registered for it), or one promise continuation.   *)
(***************************************************************************)
EXTENDS Integers, Sequences, FiniteSets, TLC

\* ------------------------------------------------------------------ bounds
MaxStreams == 2      \* request streams opened on the session
MaxRequests == 1     \* requests a caller that awaits each call gets to open
MaxCalls   == 3      \* calls of _push (send, or one element of sendMany)
MaxBatch   == 3      \* notifications in one sendMany
MaxChunks  == 1      \* body chunks the peer sends on one stream
MaxBodyChunks == 2   \* the same, where the order of the chunks is the matter
MaxTicks   == 2      \* clock advances
MaxSigns   == 3      \* signing operations

\* ------------------------------------------------------- program constants
API_VERSION == 3
RESET_TOKEN_INTERVAL_MS == 55 * 60 * 1000

\* ------------------------------------------------------ input vocabularies
\* Amounts the clock advances by: they reach an age just below, exactly at
\* and above the rotation interval, inside one second and across seconds.
Deltas == {1, RESET_TOKEN_INTERVAL_MS - 1}
\* Device tokens of notifications ("" is the missing device token).
DeviceTokens == {"", "a"}
\* The fields of a notification that _buildHeaders reads.  An optional
\* field is <<>> when it is absent and <<v>> when it is set to v; an
\* expiration is a number of seconds or a Date, given by its milliseconds.
PushTypes == {"alert", "background"}
Priorities == {<<>>, <<0>>, <<10>>}
Expirations == {<<>>, <<"number", 0>>, <<"number", 1700>>,
                <<"date", 0>>, <<"date", 1500>>}
CollapseIds == {<<>>, <<"">>, <<"c">>}
Topics == {<<>>, <<"t">>}
AllNotifications ==
  [deviceToken : DeviceTokens, pushType : PushTypes, priority : Priorities,
   expiration : Expirations, collapseId : CollapseIds, topic : Topics]
\* The notifications the calls are followed with where the headers are not
\* the matter: alerts without optional fields.
Notifications ==
  [deviceToken : DeviceTokens, pushType : {"alert"}, priority : {<<>>},
   expiration : {<<>>}, collapseId : {<<>>}, topic : {<<>>}]
\* ApnsOptions.defaultTopic the client is built with.
DefaultTopic == "default.topic"
\* The timeout option of a request: 0 stands for an absent (falsy) timeout.
Timeouts == {0, 1}
\* The requestTimeout option the client is built with.
ConfiguredTimeouts == {1}
\* Response statuses the peer answers with; 403 is the status of the
\* expired-provider-token answer.
Statuses == {200, 403}
ExpiredStatus == 403
\* Characters of body chunks; every chunk carries one character.  They
\* spell JSON numbers ("1", "11", "-1") and texts that are no JSON ("-",
\* "1-", "--").
Chars == {"1", "-"}
\* Signatures of the ES256 signer.  ECDSA draws a fresh nonce for every
\* signature, so that no two calls of sign() give the same signature, not
\* even over the same claims; a signature is named by the number of the call
\* that produced it.
Signatures == 1..(MaxSigns + 1)

NullToken == [value |-> <<>>, timestamp |-> -1]
\* Values promises settle with: undefined, the Error _getPath throws and the
\* Error a failing stream emits.
NoReason  == [kind |-> "undefined"]
ValidationError == [kind |-> "Error", message |-> "Device token is required"]
StreamErr == [kind |-> "Error", message |-> "stream error"]

VARIABLES
  now,            \* Date.now()
  ticks,          \* clock advances so far
  requestTimeout, \* ApnsOptions.requestTimeout the client was built with
  token,          \* ApnsClient._token
  signCount,      \* calls of sign() so far
  emitterOn,      \* events ApnsClient._emitter has a listener for
  streams,        \* the request streams opened on the session, in order
  calls,          \* the calls of _push, in order: notification, time, stream
  batch,          \* the sendMany in progress: its calls and its promise
  uncaught,       \* streams whose listener threw out of emit(); 0 is the
                  \* session, whose 'error' event has no listener
  alive,          \* the process has not died of an uncaught exception
  session         \* Http2Wrapper._http2Client: the calls of http2.connect
                  \* that made it and the state of its connection

vars == <<now, ticks, requestTimeout, token, signCount, emitterOn, streams,
          calls, batch, uncaught, alive, session>>

\* ------------------------------------------------------------ pure helpers
RECURSIVE Concat(_)
\* Buffer.concat(chunks).toString('utf8'): the chunks' characters in order.
Concat(chunks) ==
  IF chunks = <<>> THEN <<>> ELSE Head(chunks) \o Concat(Tail(chunks))

\* A non-empty run of digits.
Digits(text) == text # <<>> /\ \A i \in DOMAIN text : text[i] = "1"

\* JSON.parse over the texts the alphabet can spell: a number is an optional
\* minus sign and then digits; any other text is a SyntaxError.
JsonParses(text) ==
  \/ Digits(text)
  \/ text # <<>> /\ Head(text) = "-" /\ Digits(Tail(text))

\* _convertBufferToJson: empty text is undefined, other text is parsed;
\* "throws" says that JSON.parse threw a SyntaxError.
_convertBufferToJson(buffer) ==
  LET text == buffer IN
  IF text = <<>> THEN [throws |-> FALSE, value |-> [kind |-> "undefined"]]
  ELSE IF JsonParses(text)
       THEN [throws |-> FALSE, value |-> [kind |-> "json", text |-> text]]
       ELSE [throws |-> TRUE, value |-> [kind |-> "SyntaxError"]]

\* getStatusText: the canonical reason phrase of a status code.
getStatusText(status) ==
  CASE status = 200 -> "OK"
    [] status = 403 -> "Forbidden"
    [] OTHER -> "Unknown"

Floor1000(ms) == ms \div 1000


\* ------------------------------------------------------ the signing token
\* A signer that is a function of the claims: the same claims give the same
\* token whenever they are signed.
signDeterministic(claims, sig) == <<claims.iss, claims.iat, 0>>

\* sign(claims, key, {algorithm, header}): the claims with a signature.
sign(claims, sig) == <<claims.iss, claims.iat, sig>>

\* _getSigningToken with <= for <: a token of exactly the interval's age
\* still counts as fresh.
_getSigningTokenInclusive(tok, t, sig) ==
  IF tok # NullToken /\ t - tok.timestamp <= RESET_TOKEN_INTERVAL_MS
  THEN [value |-> tok.value, token |-> tok, signed |-> FALSE]
  ELSE LET value == <<"team", t \div 1000, sig>>
       IN [value |-> value, token |-> [value |-> value, timestamp |-> t],
           signed |-> TRUE]

\* _getSigningToken without its cache: every lookup signs.
_getSigningTokenUncached(tok, t, sig) ==
  LET value == <<"team", t \div 1000, sig>>
  IN [value |-> value, token |-> [value |-> value, timestamp |-> t],
      signed |-> TRUE]

\* _getSigningToken at time t with cached token tok; sig is the signature
\* the signer produces if it is called.  Gives the returned value, the
\* token the client holds afterwards and whether sign() was called.
_getSigningToken(tok, t, sig) ==
  IF tok # NullToken /\ t - tok.timestamp < RESET_TOKEN_INTERVAL_MS
  THEN [value |-> tok.value, token |-> tok, signed |-> FALSE]
  ELSE LET claims == [iss |-> "team", iat |-> Floor1000(t)]
           value  == sign(claims, sig)
       IN [value |-> value,
           token |-> [value |-> value, timestamp |-> t],
           signed |-> TRUE]

\* _resetSigningToken: the listener of the expired-provider-token event.
_resetSigningToken(tok) == NullToken

\* _handleEvents: the events the constructor registers a listener for.
_handleEvents == {"ExpiredProviderToken"}

\* ------------------------------------------------------ request building
\* _getPath without its check of the device token.
_getPathUnchecked(deviceToken) ==
  [throws |-> FALSE, value |-> <<API_VERSION, "device", deviceToken>>]

\* _getPath: throws for a missing device token, else joins the segments.
_getPath(deviceToken) ==
  IF deviceToken = ""
  THEN [throws |-> TRUE, value |-> ValidationError]
  ELSE [throws |-> FALSE, value |-> <<API_VERSION, "device", deviceToken>>]

\* The truthiness of an optional field: absent, the number 0 and the empty
\* string are falsy; a Date is an object and truthy.
Truthy(field) ==
  /\ field # <<>>
  /\ Len(field) = 1 => field[1] # ""
  /\ (Len(field) = 2 /\ field[1] = "number") => field[2] # 0

\* expiration.toFixed(0) of a number of seconds, and
\* (expiration.getTime() / 1000).toFixed(0) of a Date: toFixed rounds to the
\* nearest integer, a half upwards.
ExpirationHeader(expiration) ==
  IF expiration[1] = "number"
  THEN ToString(expiration[2])
  ELSE ToString((expiration[2] + 500) \div 1000)

\* _buildHeaders: the headers of a notification, given the bearer token.  A
\* header that is not set is <<>>.
_buildHeaders(notification, tokenValue) ==
  [authorization |-> <<"bearer", tokenValue>>,
   pushType |-> <<notification.pushType>>,
   priority |-> IF notification.priority = <<>> THEN <<"0">>
                ELSE <<ToString(notification.priority[1])>>,
   topic |-> IF notification.topic = <<>> THEN <<DefaultTopic>>
             ELSE notification.topic,
   method |-> "POST",
   scheme |-> "https",
   path |-> _getPath(notification.deviceToken).value,
   expiration |-> IF Truthy(notification.expiration)
                  THEN <<ExpirationHeader(notification.expiration)>>
                  ELSE <<>>,
   collapseId |-> IF Truthy(notification.collapseId)
                  THEN notification.collapseId
                  ELSE <<>>]

\* The timeout option _push passes to request: none.
PushTimeout(configured) == 0

\* ------------------------------------------------------------ the streams
Pending == [state |-> "pending", value |-> NoReason]

\* _responseHeaders, its synchronous part: the listeners it registers.
HeaderListeners(timeout) ==
  {"hdr:error", "hdr:response"} \cup
  (IF timeout # 0 THEN {"hdr:timeout"} ELSE {})

\* _responseJson, its synchronous part: the listeners it registers.
BodyListeners == {"body:error", "body:data", "body:end"}

\* request, up to its first await: the stream is opened with the merged
\* headers, the body is written, the stream is ended for writing and the
\* header wait starts.
OpenStream(call, path, headers, hasBody, method, timeout) ==
  [call |-> call,
   headers |-> [headers EXCEPT !.method = method, !.path = path],
   endStream |-> ~hasBody,
   written |-> hasBody,
   timeout |-> timeout,
   timerArmed |-> (timeout # 0),
   listeners |-> HeaderListeners(timeout),
   destroyed |-> FALSE,
   errored |-> FALSE,
   responded |-> FALSE,
   status |-> 0,
   rbuf |-> <<>>,
   arrived |-> <<>>,
   remoteEnded |-> FALSE,
   endEmitted |-> FALSE,
   chunks |-> <<>>,
   hdr |-> Pending,
   body |-> [state |-> "none", value |-> NoReason],
   pc |-> "awaitHdr",
   result |-> NoReason]

NoHeaders ==
  [authorization |-> <<>>, pushType |-> <<>>, priority |-> <<>>,
   topic |-> <<>>, method |-> "", scheme |-> "", path |-> <<>>,
   expiration |-> <<>>, collapseId |-> <<>>]

\* ------------------------------------------------------------------ _push
\* _push with the token looked up before the device token is checked.
_pushLookupFirst(notification, st, sig) ==
  LET path == _getPath(notification.deviceToken)
      look == _getSigningToken(st.token, st.now, sig)
      looked == [st EXCEPT !.token = look.token,
                           !.signCount = @ + (IF look.signed THEN 1 ELSE 0)]
  IN IF path.throws
     THEN [looked EXCEPT !.calls = Append(@, [notification |-> notification,
                                              at |-> st.now, stream |-> 0])]
     ELSE [looked EXCEPT
             !.streams = Append(@, OpenStream(Len(st.calls) + 1, path.value,
                                     _buildHeaders(notification, look.value),
                                     TRUE, "POST",
                                     PushTimeout(st.requestTimeout))),
             !.calls = Append(@, [notification |-> notification, at |-> st.now,
                                  stream |-> Len(st.streams) + 1])]

\* One call of _push in client state st (token, signCount, streams, calls):
\* _getPath throws before anything else is evaluated; otherwise the
\* headers are built (which looks the token up) and request is called.
_push(notification, st, sig) ==
  LET path == _getPath(notification.deviceToken) IN
  IF path.throws
  THEN [st EXCEPT !.calls = Append(@, [notification |-> notification,
                                       at |-> st.now, stream |-> 0])]
  ELSE LET look == _getSigningToken(st.token, st.now, sig)
           headers == _buildHeaders(notification, look.value)
           id == Len(st.streams) + 1
           call == Len(st.calls) + 1
       IN [st EXCEPT
             !.token = look.token,
             !.signCount = @ + (IF look.signed THEN 1 ELSE 0),
             !.streams = Append(@, OpenStream(call, path.value, headers, TRUE,
                                              "POST",
                                              PushTimeout(st.requestTimeout))),
             !.calls = Append(@, [notification |-> notification,
                                  at |-> st.now, stream |-> id])]

RECURSIVE PushAll(_, _, _)
\* notifications.map(n => this._push(n)...): the calls run one after the
\* other, each up to its first suspension.
PushAll(notifications, st, sig) ==
  IF notifications = <<>> THEN st
  ELSE PushAll(Tail(notifications), _push(Head(notifications), st, sig), sig)

ClientState ==
  [token |-> token, signCount |-> signCount, streams |-> streams,
   calls |-> calls, now |-> now, requestTimeout |-> requestTimeout]

\* The promise of call i of _push: it follows the promise of its request.
PushPromise(i) ==
  IF calls[i].stream = 0
  THEN [state |-> "rejected", value |-> ValidationError]
  ELSE LET s == streams[calls[i].stream] IN
       CASE s.pc = "resolved" -> [state |-> "fulfilled", value |-> s.result]
         [] s.pc = "rejected" -> [state |-> "rejected", value |-> s.result]
         [] OTHER -> Pending

\* Caught without the catch: the promise of the call as it is.
CaughtNothing(p) == p

\* .catch(error => ({error})) on the promise of one call.
Caught(p) ==
  IF p.state = "rejected"
  THEN [state |-> "fulfilled", value |-> [error |-> p.value]]
  ELSE p

\* ------------------------------------------------------------------- Init
Init ==
  /\ now = 0
  /\ ticks = 0
  /\ requestTimeout \in ConfiguredTimeouts
  /\ token = NullToken
  /\ signCount = 0
  /\ emitterOn = _handleEvents
  /\ streams = <<>>
  /\ calls = <<>>
  /\ batch = [state |-> "none", input |-> <<>>, first |-> 0, value |-> <<>>]
  /\ uncaught = {}
  /\ alive = TRUE
  /\ session = [state |-> "connecting", connects |-> 1]

\* ------------------------------------------------------------ public calls
Install(st) ==
  /\ Len(st.streams) <= MaxStreams
  /\ Len(st.calls) <= MaxCalls
  /\ st.signCount <= MaxSigns
  /\ token' = st.token
  /\ signCount' = st.signCount
  /\ streams' = st.streams
  /\ calls' = st.calls

\* send(notification)
Send(notification) ==
  /\ alive
  /\ session.state # "failed"
  /\ Len(calls) < MaxCalls
  /\ \E sig \in Signatures :
       sig = signCount + 1 /\ Install(_push(notification, ClientState, sig))
  /\ UNCHANGED <<now, ticks, requestTimeout, emitterOn, batch, uncaught, alive,
                 session>>

BatchInputs ==
  UNION {[1..n -> Notifications] : n \in 0..MaxBatch}

\* sendMany(notifications)
SendMany(notifications) ==
  /\ alive
  /\ session.state # "failed"
  /\ batch.state # "pending"
  /\ Len(calls) + Len(notifications) <= MaxCalls
  /\ \E sig \in Signatures :
       sig = signCount + 1 /\ Install(PushAll(notifications, ClientState, sig))
  /\ batch' = [state |-> "pending", input |-> notifications,
               first |-> Len(calls) + 1, value |-> <<>>]
  /\ UNCHANGED <<now, ticks, requestTimeout, emitterOn, uncaught, alive,
                 session>>

\* A request that waits for its turn: it opens its stream only when no
\* earlier request is pending.
RequestSerialized(timeout) ==
  /\ alive
  /\ session.state # "failed"
  /\ Len(streams) < MaxStreams
  /\ \A r \in DOMAIN streams : streams[r].pc \notin {"awaitHdr", "awaitBody"}
  /\ streams' = Append(streams, OpenStream(0, <<"direct">>, NoHeaders, FALSE,
                                           "GET", timeout))
  /\ UNCHANGED <<now, ticks, requestTimeout, token, signCount, emitterOn,
                 calls, batch, uncaught, alive, session>>

\* request(path, {method: 'GET', timeout}) called on the client directly.
\* (On a session that is still connecting the stream is opened and waits for
\* the connection; on a destroyed session no stream is opened, which is not
\* followed here.)
Request(timeout) ==
  /\ alive
  /\ session.state # "failed"
  /\ Len(streams) < MaxStreams
  /\ streams' = Append(streams, OpenStream(0, <<"direct">>, NoHeaders, FALSE,
                                           "GET", timeout))
  /\ UNCHANGED <<now, ticks, requestTimeout, token, signCount, emitterOn,
                 calls, batch, uncaught, alive, session>>

\* The promises of a sendMany that waits for its first send only.
BatchPromisesFirstOnly ==
  [i \in 1..(IF batch.input = <<>> THEN 0 ELSE 1) |->
     Caught(PushPromise(batch.first + i - 1))]

\* The promises sendMany hands to Promise.all: one per notification, in the
\* order of the notifications, each with its rejection caught.
BatchPromises ==
  [i \in 1..Len(batch.input) |-> Caught(PushPromise(batch.first + i - 1))]

\* Promise.all over the promises of the batch: it rejects as soon as one of
\* them is rejected and is fulfilled, with their values in order, once all
\* of them are.
SendManySettle ==
  /\ alive
  /\ batch.state = "pending"
  /\ IF \E i \in DOMAIN BatchPromises : BatchPromises[i].state = "rejected"
     THEN batch' = [batch EXCEPT !.state = "rejected"]
     ELSE /\ \A i \in DOMAIN BatchPromises : BatchPromises[i].state = "fulfilled"
          /\ batch' = [batch EXCEPT !.state = "fulfilled",
                                    !.value = [i \in DOMAIN BatchPromises |->
                                                 BatchPromises[i].value]]
  /\ UNCHANGED <<now, ticks, requestTimeout, token, signCount, emitterOn,
                 streams, calls, uncaught, alive, session>>

\* The listener _handleEvents registers on _emitter runs: the
\* expired-provider-token event is emitted on the client's emitter.
ExpiredProviderToken ==
  /\ alive
  /\ "ExpiredProviderToken" \in emitterOn
  /\ token # NullToken
  /\ token' = _resetSigningToken(token)
  /\ UNCHANGED <<now, ticks, requestTimeout, signCount, emitterOn, streams,
                 calls, batch, uncaught, alive, session>>

\* The clock advances.
Tick(d) ==
  /\ alive
  /\ ticks < MaxTicks
  /\ now' = now + d
  /\ ticks' = ticks + 1
  /\ UNCHANGED <<requestTimeout, token, signCount, emitterOn, streams, calls,
                 batch, uncaught, alive, session>>


\* ------------------------------------------------- events of one stream
Others == <<now, ticks, requestTimeout, token, signCount, emitterOn, calls,
            batch, session>>

\* resolve / reject of a promise: they act on a pending promise only.
Resolve(p, v) == IF p.state = "pending" THEN [state |-> "resolved", value |-> v] ELSE p
Reject(p, v)  == IF p.state = "pending" THEN [state |-> "rejected", value |-> v] ELSE p

\* The 'response' listener of _responseHeaders.
OnResponse(s, status) ==
  IF "hdr:response" \in s.listeners
  THEN [s EXCEPT !.hdr = Resolve(@, [headers |-> [status |-> status],
                                     status |-> status])]
  ELSE s

\* The 'error' listeners of _responseHeaders and of _responseJson.
OnError(s, err) ==
  [s EXCEPT
     !.hdr  = IF "hdr:error" \in s.listeners THEN Reject(@, err) ELSE @,
     !.body = IF "body:error" \in s.listeners THEN Reject(@, err) ELSE @]

\* A timeout callback that does not reject.
OnTimeoutIgnored(s) ==
  [s EXCEPT !.listeners = @ \ {"hdr:timeout"}]

\* A timeout callback that bounds the whole request: it rejects the body
\* wait as well.
OnTimeoutWholeRequest(s) ==
  IF "hdr:timeout" \in s.listeners
  THEN [s EXCEPT !.hdr = Reject(@, NoReason),
                 !.body = Reject(@, NoReason),
                 !.listeners = @ \ {"hdr:timeout"}]
  ELSE s

\* The callback given to req.setTimeout: reject, called without argument.
OnTimeout(s) ==
  IF "hdr:timeout" \in s.listeners
  THEN [s EXCEPT !.hdr = Reject(@, NoReason),
                 !.listeners = @ \ {"hdr:timeout"}]
  ELSE s

\* The 'end' listener of _responseJson: the stream is destroyed and its
\* listeners removed, then the buffer is converted; resolve is reached only
\* if the conversion returns.
OnEnd(s) ==
  LET conv == _convertBufferToJson(Concat(s.chunks))
      released == [s EXCEPT !.destroyed = TRUE, !.timerArmed = FALSE,
                            !.listeners = {}]
  IN IF conv.throws THEN released
     ELSE [released EXCEPT !.body = Resolve(@, conv.value)]

\* The request of stream s has not settled.  What the peer sends on the
\* stream of a settled request reaches no listener of a pending promise and
\* is not followed.
Unsettled(s) == s.pc \in {"awaitHdr", "awaitBody"}

\* The peer's response headers arrive: 'response' is emitted.
Response(r, status) ==
  /\ alive
  /\ session.state = "connected"
  /\ r \in DOMAIN streams
  /\ Unsettled(streams[r])
  /\ ~streams[r].destroyed /\ ~streams[r].responded
  /\ streams' = [streams EXCEPT ![r] =
        OnResponse([@ EXCEPT !.responded = TRUE, !.status = status], status)]
  /\ UNCHANGED <<Others, uncaught, alive>>

\* A stream that starts to flow with its queue thrown away.
FlowDiscarding(r) ==
  /\ alive
  /\ r \in DOMAIN streams
  /\ ~streams[r].destroyed
  /\ "body:data" \in streams[r].listeners
  /\ streams[r].rbuf # <<>>
  /\ streams' = [streams EXCEPT ![r].rbuf = <<>>]
  /\ UNCHANGED <<Others, uncaught, alive>>

\* A body chunk arrives.  A stream without a 'data' listener is paused and
\* queues the chunk in its read buffer; a flowing stream emits 'data' with
\* it, and the listener pushes it onto chunks.  (arrived keeps the history:
\* the chunks the peer sent, in order.)
Data(r, c) ==
  /\ alive
  /\ session.state = "connected"
  /\ r \in DOMAIN streams
  /\ Unsettled(streams[r])
  /\ ~streams[r].destroyed /\ streams[r].responded /\ ~streams[r].remoteEnded
  /\ streams' = [streams EXCEPT ![r] =
        IF "body:data" \in @.listeners /\ @.rbuf = <<>>
        THEN [@ EXCEPT !.chunks = Append(@, <<c>>),
                       !.arrived = Append(@, <<c>>)]
        ELSE [@ EXCEPT !.rbuf = Append(@, <<c>>),
                       !.arrived = Append(@, <<c>>)]]
  /\ UNCHANGED <<Others, uncaught, alive>>

\* The peer ends the stream.
RemoteEnd(r) ==
  /\ alive
  /\ session.state = "connected"
  /\ r \in DOMAIN streams
  /\ Unsettled(streams[r])
  /\ ~streams[r].destroyed /\ streams[r].responded /\ ~streams[r].remoteEnded
  /\ streams' = [streams EXCEPT ![r].remoteEnded = TRUE]
  /\ UNCHANGED <<Others, uncaught, alive>>

\* A stream that got its 'data' listener starts to flow: 'data' is emitted
\* with each queued chunk, oldest first, and the listener pushes each onto
\* chunks.
Flow(r) ==
  /\ alive
  /\ r \in DOMAIN streams
  /\ ~streams[r].destroyed
  /\ "body:data" \in streams[r].listeners
  /\ streams[r].rbuf # <<>>
  /\ streams' = [streams EXCEPT ![r].chunks = @ \o streams[r].rbuf,
                                ![r].rbuf = <<>>]
  /\ UNCHANGED <<Others, uncaught, alive>>

\* A flowing stream whose queue is drained and whose peer has ended emits
\* 'end'.  An exception of the listener leaves emit() uncaught, which the
\* process survives only if its host handles uncaught exceptions.
EmitEnd(r) ==
  /\ alive
  /\ r \in DOMAIN streams
  /\ ~streams[r].destroyed /\ ~streams[r].endEmitted
  /\ "body:data" \in streams[r].listeners
  /\ streams[r].rbuf = <<>> /\ streams[r].remoteEnded
  /\ streams' = [streams EXCEPT ![r] = OnEnd([@ EXCEPT !.endEmitted = TRUE])]
  /\ IF _convertBufferToJson(Concat(streams[r].chunks)).throws
     THEN /\ uncaught' = uncaught \cup {r}
          /\ alive' \in BOOLEAN
     ELSE UNCHANGED <<uncaught, alive>>
  /\ UNCHANGED Others

\* The stream fails: it is destroyed with an error and 'error' is emitted.
StreamError(r) ==
  /\ alive
  /\ r \in DOMAIN streams
  /\ ~streams[r].destroyed
  /\ streams' = [streams EXCEPT ![r] =
        OnError([@ EXCEPT !.destroyed = TRUE, !.errored = TRUE,
                          !.timerArmed = FALSE], StreamErr)]
  /\ UNCHANGED <<Others, uncaught, alive>>

\* The stream's timer expires: 'timeout' is emitted.
TimeoutFire(r) ==
  /\ alive
  /\ r \in DOMAIN streams
  /\ ~streams[r].destroyed /\ streams[r].timerArmed
  /\ streams' = [streams EXCEPT ![r] = OnTimeout([@ EXCEPT !.timerArmed = FALSE])]
  /\ UNCHANGED <<Others, uncaught, alive>>

\* ------------------------------------------------ events of the session
\* The connection http2.connect started in the constructor is established:
\* 'connect' is emitted on the session, for which the wrapper has no
\* listener.
SessionConnect ==
  /\ alive
  /\ session.state = "connecting"
  /\ session' = [session EXCEPT !.state = "connected"]
  /\ UNCHANGED <<now, ticks, requestTimeout, token, signCount, emitterOn,
                 streams, calls, batch, uncaught, alive>>

\* The connection cannot be established (refused, unreachable, TLS failure):
\* the session is destroyed with the error, which destroys its streams with
\* it, and 'error' is emitted on the session.  The wrapper registers no
\* listener for it, so it is thrown as an uncaught exception.
SessionError ==
  /\ alive
  /\ session.state = "connecting"
  /\ session' = [session EXCEPT !.state = "failed"]
  /\ streams' = [r \in DOMAIN streams |->
                   IF streams[r].destroyed THEN streams[r]
                   ELSE OnError([streams[r] EXCEPT !.destroyed = TRUE,
                                                   !.errored = TRUE,
                                                   !.timerArmed = FALSE],
                                StreamErr)]
  /\ uncaught' = uncaught \cup {0}
  /\ alive' \in BOOLEAN
  /\ UNCHANGED <<now, ticks, requestTimeout, token, signCount, emitterOn,
                 calls, batch>>

\* --------------------------------------------- continuations of request
\* request resumes after `await this._responseHeaders(req, timeout)`: with
\* the headers it calls _responseJson and waits again, with a rejection it
\* throws.
ResumeAfterHeaders(r) ==
  /\ alive
  /\ r \in DOMAIN streams
  /\ streams[r].pc = "awaitHdr"
  /\ streams[r].hdr.state # "pending"
  /\ streams' = [streams EXCEPT ![r] =
        IF @.hdr.state = "resolved"
        THEN [@ EXCEPT !.listeners = @ \cup BodyListeners,
                       !.body = Pending,
                       !.pc = "awaitBody"]
        ELSE [@ EXCEPT !.pc = "rejected", !.result = streams[r].hdr.value]]
  /\ UNCHANGED <<Others, uncaught, alive>>

\* request resumes after `await this._responseJson(req)`: it returns the
\* response, or throws the rejection.
ResumeAfterBody(r) ==
  /\ alive
  /\ r \in DOMAIN streams
  /\ streams[r].pc = "awaitBody"
  /\ streams[r].body.state # "pending"
  /\ streams' = [streams EXCEPT ![r] =
        IF @.body.state = "resolved"
        THEN [@ EXCEPT !.pc = "resolved",
                       !.result = [status |-> streams[r].hdr.value.status,
                                   statusText |-> getStatusText(streams[r].hdr.value.status),
                                   headers |-> streams[r].hdr.value.headers,
                                   body |-> streams[r].body.value]]
        ELSE [@ EXCEPT !.pc = "rejected", !.result = streams[r].body.value]]
  /\ UNCHANGED <<Others, uncaught, alive>>

\* ------------------------------------------------------- specifications
StreamIds == 1..MaxStreams

\* The peer sends one more of at most max body chunks on stream r.
PeerData(r, max) ==
  /\ r \in DOMAIN streams
  /\ Len(streams[r].arrived) < max
  /\ \E c \in Chars : Data(r, c)

\* The steps of one request stream: what the peer and the runtime do to it
\* and the continuations of request; the peer sends at most max chunks.
StreamStepUpTo(r, max) ==
  \/ \E st \in Statuses : Response(r, st)
  \/ PeerData(r, max)
  \/ RemoteEnd(r)
  \/ Flow(r)
  \/ EmitEnd(r)
  \/ StreamError(r)
  \/ TimeoutFire(r)
  \/ ResumeAfterHeaders(r)
  \/ ResumeAfterBody(r)

StreamStep(r) == StreamStepUpTo(r, MaxChunks)

\* The steps of the stream of a send: _push asks for no timeout, so no timer
\* is armed on it.
PushStreamStep(r) ==
  \/ \E st \in Statuses : Response(r, st)
  \/ PeerData(r, MaxChunks)
  \/ RemoteEnd(r)
  \/ Flow(r)
  \/ EmitEnd(r)
  \/ StreamError(r)
  \/ ResumeAfterHeaders(r)
  \/ ResumeAfterBody(r)

\* The caller awaits each call before it makes the next one: no request is
\* unsettled and no sendMany is pending.
Idle ==
  /\ \A r \in DOMAIN streams : ~Unsettled(streams[r])
  /\ batch.state # "pending"

\* Single calls: the client used by a caller that awaits each send or
\* request before it makes the next one, and the streams of its calls, while
\* the clock stands still.
Next ==
  \/ Idle /\ \E n \in Notifications : Send(n) /\ Len(streams') <= MaxRequests
  \/ Idle /\ Len(streams) < MaxRequests /\ \E t \in Timeouts : Request(t)
  \/ \E r \in StreamIds : StreamStep(r)
  \/ SessionConnect

Spec == Init /\ [][Next]_vars

\* Batches: the client used by a caller that awaits each sendMany; the
\* sends of one sendMany run concurrently on the session.
BatchNext ==
  \/ Idle /\ \E ns \in BatchInputs : SendMany(ns)
  \/ SendManySettle
  \/ \E r \in StreamIds : PushStreamStep(r)
  \/ SessionConnect

BatchSpec == Init /\ [][BatchNext]_vars

\* What the runtime is bound to do once it can: run a continuation, emit a
\* queued event, fire an armed timer.  Whether and when the peer answers,
\* and what the caller does, is left open.
Fairness ==
  \A r \in StreamIds :
    /\ WF_vars(ResumeAfterHeaders(r))
    /\ WF_vars(ResumeAfterBody(r))
    /\ WF_vars(Flow(r))
    /\ WF_vars(EmitEnd(r))
    /\ WF_vars(TimeoutFire(r))

FairSpec == Init /\ [][Next]_vars /\ Fairness

\* Batches under the runtime's fairness: the reaction of Promise.all runs
\* once the promises it waits for have settled.
FairBatchSpec ==
  Init /\ [][BatchNext]_vars /\ Fairness /\ WF_vars(SendManySettle)

\* The wrapper alone: requests made on the client directly by a caller that
\* awaits each of them, under the runtime's fairness.
RequestNext ==
  \/ Idle /\ Len(streams) < MaxRequests /\ \E t \in Timeouts : Request(t)
  \/ \E r \in StreamIds : StreamStep(r)
  \/ SessionConnect

FairRequestSpec == Init /\ [][RequestNext]_vars /\ Fairness

\* Concurrent requests: a caller that makes requests on the client without
\* waiting for the ones it made before.
ConcurrentNext ==
  \/ Len(streams) < MaxStreams /\ \E t \in Timeouts : Request(t)
  \/ \E r \in StreamIds : StreamStep(r)
  \/ SessionConnect

ConcurrentSpec == Init /\ [][ConcurrentNext]_vars

\* The session from its construction on: its connection is established or
\* fails, while a caller that awaits each request uses the wrapper.
SessionNext ==
  \/ Idle /\ Len(streams) < MaxRequests /\ \E t \in Timeouts : Request(t)
  \/ \E r \in StreamIds : StreamStep(r)
  \/ SessionConnect
  \/ SessionError

SessionSpec == Init /\ [][SessionNext]_vars

\* The headers of the sends of all notifications, by a caller that awaits
\* each send, while the peer stays silent.
HeaderNext ==
  \/ \E n \in AllNotifications : Send(n) /\ Len(calls') <= MaxRequests
  \/ SessionConnect

HeaderSpec == Init /\ [][HeaderNext]_vars

\* Single calls and their failures, with the expired-provider-token event
\* delivered to the client's emitter at arbitrary moments.
FailureNext ==
  \/ Idle /\ \E n \in Notifications : Send(n) /\ Len(streams') <= MaxRequests
  \/ Idle /\ Len(streams) < MaxRequests /\ \E t \in Timeouts : Request(t)
  \/ \E r \in StreamIds : StreamStep(r)
  \/ SessionConnect
  \/ ExpiredProviderToken

FailureSpec == Init /\ [][FailureNext]_vars

\* The body of a response: requests made by a caller that awaits each of
\* them, answered with bodies of several chunks.
BodyNext ==
  \/ Idle /\ Len(streams) < MaxRequests /\ \E t \in Timeouts : Request(t)
  \/ \E r \in StreamIds : StreamStepUpTo(r, MaxBodyChunks)
  \/ SessionConnect

BodySpec == Init /\ [][BodyNext]_vars

\* The client's token over time, while the peer stays silent.
TokenNext ==
  \/ \E n \in Notifications : Send(n)
  \/ \E ns \in BatchInputs : SendMany(ns)
  \/ SendManySettle
  \/ \E d \in Deltas : Tick(d)
  \/ SessionConnect

TokenSpec == Init /\ [][TokenNext]_vars

\* The client's token over time when the expired-provider-token event is
\* delivered to the client's emitter at arbitrary moments.
SignalNext ==
  \/ \E n \in Notifications : Send(n)
  \/ \E ns \in BatchInputs : SendMany(ns)
  \/ SendManySettle
  \/ \E d \in Deltas : Tick(d)
  \/ ExpiredProviderToken
  \/ SessionConnect

SignalSpec == Init /\ [][SignalNext]_vars


\* ==================================================================== claims
Settled(s) == ~Unsettled(s)
IsError(v) == DOMAIN v = {"error"}
IsResponse(v) == DOMAIN v = {"status", "statusText", "headers", "body"}

\* The outcome sendMany owes for call i: the response of the call's request,
\* or an object holding the error the call failed with.
OutcomeOfCall(i) ==
  IF calls[i].notification.deviceToken = ""
  THEN [error |-> ValidationError]
  ELSE LET mine == {r \in DOMAIN streams : streams[r].call = i} IN
       IF mine = {} THEN [error |-> NoReason]
       ELSE LET s == streams[CHOOSE r \in mine : TRUE] IN
            IF s.pc = "resolved" THEN s.result ELSE [error |-> s.result]

\* C1: sendMany never rejects, and when it resolves its value has the length
\* of the input and element i is the outcome of notification i: the response
\* of that notification's request, or an object holding that notification's
\* error; an element is an error only if its own notification failed.
C1_SendManyOutcomes ==
  /\ batch.state # "rejected"
  /\ batch.state = "fulfilled" =>
       /\ Len(batch.value) = Len(batch.input)
       /\ \A i \in DOMAIN batch.input :
            LET c == batch.first + i - 1 IN
            /\ calls[c].notification = batch.input[i]
            /\ batch.value[i] = OutcomeOfCall(c)
            /\ IsError(batch.value[i]) <=>
                 \/ batch.input[i].deviceToken = ""
                 \/ \E r \in DOMAIN streams :
                      streams[r].call = c /\ streams[r].pc = "rejected"
            /\ batch.input[i].deviceToken # "" =>
                 \E r \in DOMAIN streams :
                   /\ streams[r].call = c
                   /\ Settled(streams[r])
                   /\ streams[r].headers.path =
                        <<API_VERSION, "device", batch.input[i].deviceToken>>

\* A batch [n1, n2, n3] with n2 invalid has resolved: element 2 is an error,
\* element 1 is a response and element 3 is the error of a failed stream.
C1_Witness ==
  /\ batch.state = "fulfilled"
  /\ Len(batch.input) = 3
  /\ batch.input[2].deviceToken = ""
  /\ IsResponse(batch.value[1])
  /\ batch.value[2] = [error |-> ValidationError]
  /\ batch.value[3] = [error |-> StreamErr]

\* C2: a send of a notification with an empty device token fails with the
\* validation error and opens no stream: no stream of the session belongs to
\* such a call.
C2_EmptyTokenOpensNoStream ==
  /\ \A i \in DOMAIN calls :
       calls[i].notification.deviceToken = "" =>
         /\ calls[i].stream = 0
         /\ PushPromise(i) = [state |-> "rejected", value |-> ValidationError]
  /\ \A r \in DOMAIN streams :
       streams[r].call # 0 =>
         /\ streams[r].call \in DOMAIN calls
         /\ calls[streams[r].call].notification.deviceToken # ""
         /\ calls[streams[r].call].stream = r

\* A send with an empty device token was made while the client already had
\* a stream and a cached token, and it opened no stream.
C2_Witness ==
  /\ Len(calls) = 2
  /\ calls[1].notification.deviceToken # ""
  /\ calls[2].notification.deviceToken = ""
  /\ Len(streams) = 1
  /\ token # NullToken

\* C3: a stream error before the request has settled fails the request: it
\* rejects the header wait or, once the headers have resolved, the body wait
\* (which starts when request resumes after the headers).
C3_ErrorFailsRequest ==
  \A r \in DOMAIN streams :
    streams[r].errored =>
      \/ streams[r].hdr.state = "rejected"
      \/ streams[r].body.state = "rejected"
      \/ streams[r].pc = "awaitHdr" /\ streams[r].hdr.state = "resolved"

\* C4: a stream that completes with a non-empty body that is no JSON fails
\* the body wait, so that the request settles as a failure.
C4_DecodeErrorRejects ==
  \A r \in DOMAIN streams :
    (/\ streams[r].endEmitted
     /\ Concat(streams[r].chunks) # <<>>
     /\ ~JsonParses(Concat(streams[r].chunks)))
    => streams[r].body.state = "rejected"

\* C6: every stream a send opens carries the timeout the client was
\* configured with.
C6_SendUsesConfiguredTimeout ==
  \A r \in DOMAIN streams :
    (streams[r].call # 0 /\ requestTimeout # 0) =>
      streams[r].timeout = requestTimeout /\ streams[r].timerArmed

\* C7: a settled request has released its stream: the stream is destroyed
\* and none of the wrapper's listeners is registered on it.
C7_SettledReleased ==
  \A r \in DOMAIN streams :
    Settled(streams[r]) =>
      streams[r].destroyed /\ streams[r].listeners = {}


\* The streams a step opens for calls of _push.
Bearer(s) == s.headers.authorization

\* C8: the token a lookup returns is younger than the rotation interval at
\* the time of the lookup: a step that opens streams for sends leaves them
\* with the client's token, whose age is below the interval, and when the
\* step did not sign, that token is the one that was cached before.
C8_ReturnedTokenIsYoung ==
  [][\A r \in DOMAIN streams' :
       (r > Len(streams) /\ streams'[r].call # 0) =>
         /\ token' # NullToken
         /\ Bearer(streams'[r]) = <<"bearer", token'.value>>
         /\ now - token'.timestamp < RESET_TOKEN_INTERVAL_MS
         /\ signCount' = signCount =>
              token # NullToken /\ token' = token]_vars

\* A send made one millisecond before the token reaches the interval got
\* the token that was signed at time 0, and nothing was signed for it.
C8_Witness ==
  /\ Len(calls) = 2 /\ Len(streams) = 2
  /\ calls[1].at = 0
  /\ calls[2].at = RESET_TOKEN_INTERVAL_MS - 1
  /\ Bearer(streams[2]) = <<"bearer", token.value>>
  /\ token.timestamp = 0
  /\ signCount = 1

\* C9: a lookup made while the cached token's age is below the rotation
\* interval performs no signing and returns the cached value, so that it
\* returns what the lookup before it returned.
C9_FreshTokenIsReused ==
  [][(/\ Len(streams') > Len(streams)
      /\ token # NullToken
      /\ now - token.timestamp < RESET_TOKEN_INTERVAL_MS)
     => /\ signCount' = signCount
        /\ token' = token
        /\ \A r \in DOMAIN streams' :
             r > Len(streams) => Bearer(streams'[r]) = <<"bearer", token.value>>
        /\ \A r \in DOMAIN streams :
             Bearer(streams[r]) = <<"bearer", token.value>> =>
               \A q \in DOMAIN streams' :
                 q > Len(streams) => Bearer(streams'[q]) = Bearer(streams[r])]_vars

\* Two sends at different times within the interval carry the same token
\* and one signing was performed.
C9_Witness ==
  /\ Len(streams) = 2
  /\ calls[streams[1].call].at < calls[streams[2].call].at
  /\ calls[streams[2].call].at < RESET_TOKEN_INTERVAL_MS
  /\ Bearer(streams[1]) = Bearer(streams[2])
  /\ signCount = 1


\* C5: a request issued with a timeout whose response headers do not arrive
\* within the window fails: while it waits for the headers with its timer
\* armed, either the headers arrive or the request settles as a failure.
C5_TimeoutFailsRequest ==
  \A r \in StreamIds :
    (/\ r \in DOMAIN streams
     /\ streams[r].timeout # 0
     /\ streams[r].pc = "awaitHdr"
     /\ ~streams[r].responded)
    ~> (/\ r \in DOMAIN streams
        /\ \/ streams[r].responded
           \/ streams[r].pc = "rejected")

\* A request with a timeout failed by its timer: no headers arrived, no
\* stream error occurred, the request is rejected, with undefined as the
\* reason.
C5_Witness ==
  \E r \in DOMAIN streams :
    /\ streams[r].timeout # 0
    /\ ~streams[r].responded /\ ~streams[r].errored
    /\ streams[r].hdr = [state |-> "rejected", value |-> NoReason]
    /\ streams[r].pc = "rejected"

\* C10: an expired-credential response that the caller has received leads
\* to the expired-credential signal being delivered to the client, which
\* clears the cached token.
C10_ExpiredResponseClearsToken ==
  \A r \in StreamIds :
    (/\ r \in DOMAIN streams
     /\ streams[r].call # 0
     /\ streams[r].pc = "resolved"
     /\ streams[r].result.status = ExpiredStatus)
    ~> (token = NullToken)

Failed(r) ==
  \/ streams[r].errored
  \/ streams[r].hdr = [state |-> "rejected", value |-> NoReason]
  \/ r \in uncaught

\* C12: a failure of one request stream does not affect a sibling: when one
\* of two requests has failed, the other, while it is pending, still has a
\* running process to settle it, and when it is rejected it is so for a
\* failure of its own.
C12_FailureStaysOnItsStream ==
  \A r, q \in DOMAIN streams :
    (r # q /\ Failed(r)) =>
      /\ Unsettled(streams[q]) => alive
      /\ streams[q].pc = "rejected" => Failed(q)

\* The calls of the batch in progress have all settled.
BatchSettled ==
  \A i \in DOMAIN batch.input : PushPromise(batch.first + i - 1).state # "pending"

\* C13: the step that starts a sendMany opens the stream of every valid
\* notification of the batch, while none of them has received anything; the
\* sendMany is completed only when every send of the batch has settled; and
\* once every send of the batch has settled, the sendMany completes.
C13_BatchConcurrentAndComplete ==
  /\ [][(batch'.state = "pending" /\ batch.state # "pending") =>
          /\ batch'.first = Len(calls) + 1
          /\ Len(calls') = Len(calls) + Len(batch'.input)
          /\ \A i \in DOMAIN batch'.input :
               batch'.input[i].deviceToken # "" =>
                 \E r \in DOMAIN streams' :
                   /\ r > Len(streams)
                   /\ streams'[r].call = batch'.first + i - 1
                   /\ streams'[r].pc = "awaitHdr"
                   /\ ~streams'[r].responded]_vars
  /\ [](batch.state \in {"fulfilled", "rejected"} => BatchSettled)
  /\ (batch.state = "pending" /\ BatchSettled) ~> (batch.state = "fulfilled")

\* A sendMany of two valid notifications has completed with the responses
\* of both, whose streams were open at the same time.
C13_Witness ==
  /\ batch.state = "fulfilled"
  /\ Len(batch.input) = 2
  /\ Len(streams) = 2
  /\ streams[1].call = batch.first /\ streams[2].call = batch.first + 1
  /\ IsResponse(batch.value[1]) /\ IsResponse(batch.value[2])

\* Stream r is stalled: its request waits for headers the peer has not sent.
Stalled(r) ==
  /\ streams[r].pc = "awaitHdr"
  /\ ~streams[r].responded /\ ~streams[r].destroyed
  /\ streams[r].hdr.state = "pending"

\* C14: requests are not serialized.  A call of request opens its stream in
\* the step of the call, whatever the state of the streams opened before,
\* and leaves those as they are; and while an earlier request is stalled, the
\* continuations of a later one run as soon as its own promise has settled.
C14_RequestsNotSerialized ==
  /\ [](\A t \in Timeouts :
          (alive /\ Len(streams) < MaxStreams) => ENABLED Request(t))
  /\ [][Len(streams') > Len(streams) =>
          /\ Len(streams') = Len(streams) + 1
          /\ \A r \in DOMAIN streams : streams'[r] = streams[r]
          /\ streams'[Len(streams')].pc = "awaitHdr"
          /\ streams'[Len(streams')].hdr = Pending]_vars
  /\ [](\A r, q \in DOMAIN streams :
          (alive /\ r < q /\ Stalled(r)) =>
            /\ (streams[q].pc = "awaitHdr" /\ streams[q].hdr.state # "pending")
                 => ENABLED ResumeAfterHeaders(q)
            /\ (streams[q].pc = "awaitBody" /\ streams[q].body.state # "pending")
                 => ENABLED ResumeAfterBody(q))

\* The second of two requests has resolved while the first, made before it,
\* still waits for its headers.
C14_Witness ==
  /\ Len(streams) = 2
  /\ Stalled(1)
  /\ streams[2].pc = "resolved"

\* C15: the construction establishes the session exactly once, and a
\* failure to establish it does not show up after the construction has
\* returned: in no state of the constructed client has the session failed to
\* connect or raised its error outside the constructor.
C15_ConnectFailureAtConstruction ==
  /\ session.connects = 1
  /\ session.state # "failed"
  /\ 0 \notin uncaught

\* C16: the stream of a send of a notification with a device token carries
\* the push type, the priority as a string ("0" when the notification has
\* none), an expiration header exactly when the notification's expiration
\* is set (0 included), and a collapse-id header exactly when its collapse
\* id is set.
C16_HeadersFollowOptions ==
  \A i \in DOMAIN calls :
    calls[i].notification.deviceToken # "" =>
      LET n == calls[i].notification
          h == streams[calls[i].stream].headers
      IN /\ h.pushType = <<n.pushType>>
         /\ h.priority = IF n.priority = <<>> THEN <<"0">>
                         ELSE <<ToString(n.priority[1])>>
         /\ (h.expiration # <<>>) <=> (n.expiration # <<>>)
         /\ (h.collapseId # <<>>) <=> (n.collapseId # <<>>)

\* What a step leaves alone when it touches at most the stream r: the
\* cached token, the session, the client's listeners, the process and the
\* other streams.
FrameExcept(r) ==
  /\ token' = token /\ signCount' = signCount
  /\ session' = session /\ emitterOn' = emitterOn
  /\ alive' = alive
  /\ \A q \in DOMAIN streams : q # r => streams'[q] = streams[q]

\* C17: a step in which a request fails (a send rejected for its device
\* token, a stream hit by an error, by its timer or by a body that cannot be
\* decoded, a request settling as a failure) changes nothing that other
\* requests share; and the cached token changes only by a lookup that
\* replaces it or by the expired-provider-token event, which clears it and
\* changes nothing else.
C17_FailureChangesNothingShared ==
  [][/\ (Len(calls') > Len(calls) /\ calls'[Len(calls')].stream = 0)
         => (FrameExcept(0) /\ streams' = streams)
     /\ \A r \in DOMAIN streams :
          (\/ ~Failed(r) /\ Failed(r)'
           \/ streams[r].pc # "rejected" /\ streams'[r].pc = "rejected")
          => FrameExcept(r)
     /\ token' # token =>
          \/ /\ token' # NullToken
             /\ Len(streams') > Len(streams)
             /\ signCount' = signCount + 1
          \/ /\ token' = NullToken
             /\ UNCHANGED <<now, ticks, requestTimeout, signCount, emitterOn,
                            streams, calls, batch, uncaught, alive, session>>]_vars

\* C18: a request that has resolved has received its headers and the end of
\* its stream, and its body is the decoding of the chunks that arrived on the
\* stream, all of them and in the order of their arrival, whether they came
\* before or after the body wait started to listen: absent for an empty
\* text, else the value the text parses to; and until the stream is released
\* the chunks pushed and the chunks queued are the chunks that arrived.
C18_BodyIsAllChunksInOrder ==
  \A r \in DOMAIN streams :
    /\ ~streams[r].endEmitted =>
         streams[r].chunks \o streams[r].rbuf = streams[r].arrived
    /\ streams[r].pc = "resolved" =>
         LET text == Concat(streams[r].arrived) IN
         /\ streams[r].responded /\ streams[r].remoteEnded
         /\ streams[r].endEmitted
         /\ streams[r].result.status = streams[r].status
         /\ IF text = <<>>
            THEN streams[r].result.body = [kind |-> "undefined"]
            ELSE /\ JsonParses(text)
                 /\ streams[r].result.body = [kind |-> "json", text |-> text]

\* A request has resolved with the number -1, whose two chunks arrived in
\* this order.
C18_Witness ==
  \E r \in DOMAIN streams :
    /\ streams[r].pc = "resolved"
    /\ streams[r].arrived = << <<"-">>, <<"1">> >>
    /\ streams[r].result.body = [kind |-> "json", text |-> <<"-", "1">>]

\* C19: once the header wait of a request has resolved, the expiry of its
\* timer changes neither its promises nor its outcome nor what it has
\* buffered, and the request is settled only by the end of its stream (as a
\* response) or by a stream error (as that failure): it is pending as long
\* as neither has happened.
C19_TimeoutOnlyBoundsHeaderWait ==
  /\ [][\A r \in DOMAIN streams :
          (/\ streams[r].hdr.state = "resolved"
           /\ streams[r].timerArmed /\ ~streams'[r].timerArmed
           /\ ~streams'[r].destroyed)
          => /\ streams'[r].hdr = streams[r].hdr
             /\ streams'[r].body = streams[r].body
             /\ streams'[r].pc = streams[r].pc
             /\ streams'[r].result = streams[r].result
             /\ streams'[r].chunks = streams[r].chunks
             /\ streams'[r].rbuf = streams[r].rbuf
             /\ streams'[r].listeners \cap BodyListeners =
                  streams[r].listeners \cap BodyListeners]_vars
  /\ [](\A r \in DOMAIN streams :
          (streams[r].hdr.state = "resolved" /\ Settled(streams[r])) =>
            \/ streams[r].pc = "resolved" /\ streams[r].endEmitted
            \/ /\ streams[r].pc = "rejected" /\ streams[r].errored
               /\ streams[r].result = StreamErr)

\* The timer of a request has expired after its headers arrived, and the
\* request still waits for its body.
C19_Witness ==
  \E r \in DOMAIN streams :
    /\ streams[r].timeout # 0
    /\ streams[r].hdr.state = "resolved"
    /\ ~streams[r].timerArmed /\ ~streams[r].destroyed
    /\ "hdr:timeout" \notin streams[r].listeners
    /\ streams[r].pc = "awaitBody" /\ streams[r].body = Pending

\* C20: the sends of one sendMany look the token up in the one step that
\* starts the batch: that step signs at most once, and only when no token
\* is cached or the cached one has reached the interval; every stream it
\* opens carries the same bearer, that of the token the client holds after
\* the step; and a step whose notifications all fail validation, in a send
\* or in a sendMany, neither signs nor touches the token.
C20_BatchSignsAtMostOnce ==
  [][/\ (batch'.state = "pending" /\ batch.state # "pending") =>
          /\ signCount' \in {signCount, signCount + 1}
          /\ signCount' = signCount + 1 =>
               \/ token = NullToken
               \/ now - token.timestamp >= RESET_TOKEN_INTERVAL_MS
          /\ \A r \in DOMAIN streams' :
               r > Len(streams) =>
                 Bearer(streams'[r]) = <<"bearer", token'.value>>
     /\ (/\ Len(calls') > Len(calls)
         /\ \A i \in DOMAIN calls' :
              i > Len(calls) => calls'[i].notification.deviceToken = "")
        => (signCount' = signCount /\ token' = token /\ streams' = streams)
    ]_vars

\* A sendMany of three notifications, the second without device token,
\* made by a client without token: one signing, two streams, one bearer.
C20_Witness ==
  /\ batch.state = "pending"
  /\ Len(batch.input) = 3 /\ batch.first = 1
  /\ batch.input[2].deviceToken = ""
  /\ Len(streams) = 2
  /\ Bearer(streams[1]) = Bearer(streams[2])
  /\ signCount = 1

====
